---- MODULE Spec2Model ----
(***************************************************************************)
(* Model of main.py: extract_features_from_game (lines 6-69) and           *)
(* build_dataset (lines 72-101).                                           *)
(*                                                                         *)
(* A move of the archive is a record [piece, is_capture, score]: the type  *)
(* of the moving piece, board.is_capture(move), and the value that         *)
(* info["score"].white().score(mate_score=10000) yields for the position   *)
(* after the move (<<>> stands for None, <<v>> for the integer v).  A game *)
(* is its mainline, a sequence of moves; the archive is a sequence of      *)
(* games.  The feature record keeps the fields the history window reads    *)
(* (move_number, piece, is_capture) and the prev_i_* fields; the other     *)
(* fields are computed from the board alone and feed nothing else.         *)
(***************************************************************************)
EXTENDS Integers, Sequences, FiniteSets, TLC

VARIABLES pc, error, engine, starts, quits, written, output,
          archive, f, game_count, all_rows,
          game, move_number, prev_eval, move_history, features, labels,
          evals, diffs

ctl    == <<pc, error, engine, starts, quits, written, output>>
driver == <<f, game_count, all_rows>>
locals == <<game, move_number, prev_eval, move_history, features, labels,
            evals, diffs>>
vars   == <<pc, error, engine, starts, quits, written, output,
            archive, f, game_count, all_rows,
            game, move_number, prev_eval, move_history, features, labels,
            evals, diffs>>

----------------------------------------------------------------------------
(* Bounds of the explored inputs *)

MaxMoves == 3
MaxGames == 2
MaxExtra == 1

(* while game_count < 500 *)
GameLimit == 500

Pieces == {1, 2}
Scores == {<<>>, <<0>>, <<-19>>, <<-20>>, <<-21>>, <<-100>>, <<-101>>}
PlainScores == {<<-150>>}

MovesWith(scores) ==
    {m \in [piece : Pieces, is_capture : BOOLEAN, score : scores] :
        m.is_capture = (m.piece = 2)}

GamesOver(moves) ==
    UNION {[1..n -> moves] : n \in 0..MaxMoves}

FillerGame == <<[piece |-> 1, is_capture |-> FALSE, score |-> <<0>>]>>

(* one game of any content; several plain games; GameLimit games or more *)
Archives ==
    {<<>>}
    \cup {<<g>> : g \in GamesOver(MovesWith(Scores))}
    \cup UNION {[1..n -> GamesOver(MovesWith(PlainScores))] : n \in 2..MaxGames}
    \cup {[i \in 1..n |-> FillerGame] : n \in GameLimit..(GameLimit + MaxExtra)}

----------------------------------------------------------------------------
(* extract_features_from_game *)

Max(a, b) == IF a >= b THEN a ELSE b

(* move_history[-2:] *)
LastTwo(h) == SubSeq(h, Max(1, Len(h) - 1), Len(h))

PieceKey(i)   == IF i = 1 THEN "prev_1_piece" ELSE "prev_2_piece"
CaptureKey(i) == IF i = 1 THEN "prev_1_is_capture" ELSE "prev_2_is_capture"

(* for i, past in enumerate(move_history[-2:], 1): feat[prev_i_*] = ... *)
RECURSIVE HistoryFields(_, _)
HistoryFields(w, i) ==
    IF i > Len(w) THEN [k \in {} |-> 0]
    ELSE (PieceKey(i) :> w[i].piece)
         @@ (CaptureKey(i) :> w[i].is_capture)
         @@ HistoryFields(w, i + 1)

(* the feat dict of one loop iteration *)
Feat(n, move, h) ==
    [move_number |-> n, piece |-> move.piece, is_capture |-> move.is_capture]
    @@ HistoryFields(LastTwo(h), 1)

(* variant: a missing score is taken to be 0 *)
EvalScoreZero(score, prev) == IF score = <<>> THEN 0 ELSE score[1]

(* if eval_score is None: eval_score = prev_eval *)
EvalScore(score, prev) == IF score = <<>> THEN prev ELSE score[1]

(* variant: the lower threshold is inclusive *)
LabelInclusive(diff) ==
    IF diff <= 20 THEN "good"
    ELSE IF diff > 100 THEN "blunder"
    ELSE "inaccuracy"

Label(diff) ==
    IF diff < 20 THEN "good"
    ELSE IF diff > 100 THEN "blunder"
    ELSE "inaccuracy"

(* variants: the baseline, the window, outlive the call *)
KeptPrevEval == prev_eval
KeptMoveHistory == move_history

(* prev_eval = 0 and move_history = [] at the head of every call *)
NewPrevEval == 0
NewMoveHistory == <<>>

----------------------------------------------------------------------------
(* build_dataset *)

(* variant: the engine is shut down on the way out *)
RaiseWithCleanup(kind) ==
    /\ pc' = "error"
    /\ error' = kind
    /\ engine' = "stopped"
    /\ quits' = quits + 1
    /\ UNCHANGED <<starts, written, output>>

(* an exception leaves build_dataset: nothing catches it, nothing runs *)
Raise(kind) ==
    /\ pc' = "error"
    /\ error' = kind
    /\ UNCHANGED <<engine, starts, quits, written, output>>

Goto(next) ==
    /\ pc' = next
    /\ UNCHANGED <<error, engine, starts, quits, written, output>>

(* variant: every row gets the label of the last move *)
LabelledRowsLast(feats, labs) ==
    [k \in 1..(IF Len(feats) <= Len(labs) THEN Len(feats) ELSE Len(labs)) |->
        feats[k] @@ ("label" :> labs[Len(labs)])]

(* for feat, label in zip(feats, labels): feat["label"] = label *)
LabelledRows(feats, labs) ==
    [k \in 1..(IF Len(feats) <= Len(labs) THEN Len(feats) ELSE Len(labs)) |->
        feats[k] @@ ("label" :> labs[k])]

(* variant: engine.quit() is skipped *)
AfterLoopNoQuit == "save"

(* the statement after the with block *)
AfterLoop == "quit"

Init ==
    /\ pc = "start"
    /\ error = "none"
    /\ engine = "not_started"
    /\ starts = 0
    /\ quits = 0
    /\ written = FALSE
    /\ output = <<>>
    /\ archive \in Archives
    /\ f = 0
    /\ game_count = 0
    /\ all_rows = <<>>
    /\ game = <<>>
    /\ move_number = 0
    /\ prev_eval = 0
    /\ move_history = <<>>
    /\ features = <<>>
    /\ labels = <<>>
    /\ evals = <<>>
    /\ diffs = <<>>

(* engine = chess.engine.SimpleEngine.popen_uci(engine_path); all_rows = [] *)
StartEngine ==
    /\ pc = "start"
    /\ pc' = "open"
    /\ engine' = "running"
    /\ starts' = starts + 1
    /\ all_rows' = <<>>
    /\ UNCHANGED <<error, quits, written, output, archive, f, game_count>>
    /\ UNCHANGED locals

StartEngineFails ==
    /\ pc = "start"
    /\ Raise("EngineError")
    /\ UNCHANGED <<archive, driver>>
    /\ UNCHANGED locals

(* with open(pgn_file) as f: game_count = 0 *)
OpenArchive ==
    /\ pc = "open"
    /\ Goto("loop")
    /\ f' = 0
    /\ game_count' = 0
    /\ UNCHANGED <<archive, all_rows>>
    /\ UNCHANGED locals

OpenArchiveFails ==
    /\ pc = "open"
    /\ Raise("OSError")
    /\ UNCHANGED <<archive, driver>>
    /\ UNCHANGED locals

(* read_game returns a game: count it and enter extract_features_from_game *)
ReadGame ==
    /\ pc = "loop"
    /\ game_count < GameLimit
    /\ f < Len(archive)
    /\ Goto("extract")
    /\ f' = f + 1
    /\ game_count' = game_count + 1
    /\ game' = archive[f + 1]
    /\ features' = <<>>
    /\ labels' = <<>>
    /\ move_number' = 0
    /\ prev_eval' = NewPrevEval
    /\ move_history' = NewMoveHistory
    /\ evals' = <<>>
    /\ diffs' = <<>>
    /\ UNCHANGED <<archive, all_rows>>

(* read_game returns None: break *)
EndOfArchive ==
    /\ pc = "loop"
    /\ game_count < GameLimit
    /\ f = Len(archive)
    /\ Goto(AfterLoop)
    /\ UNCHANGED <<archive, driver>>
    /\ UNCHANGED locals

(* the while condition is false *)
LimitReached ==
    /\ pc = "loop"
    /\ ~(game_count < GameLimit)
    /\ Goto(AfterLoop)
    /\ UNCHANGED <<archive, driver>>
    /\ UNCHANGED locals

ReadGameFails ==
    /\ pc = "loop"
    /\ game_count < GameLimit
    /\ Raise("ReadError")
    /\ UNCHANGED <<archive, driver>>
    /\ UNCHANGED locals

(* one iteration of for move in game.mainline_moves() *)
ProcessMove ==
    /\ pc = "extract"
    /\ move_number < Len(game)
    /\ LET n          == move_number + 1
           move       == game[n]
           feat       == Feat(n, move, move_history)
           eval_score == EvalScore(move.score, prev_eval)
           diff       == prev_eval - eval_score
           label      == Label(diff)
       IN  /\ move_number' = n
           /\ prev_eval' = eval_score
           /\ features' = Append(features, feat)
           /\ labels' = Append(labels, label)
           /\ move_history' = Append(move_history, feat)
           /\ evals' = Append(evals, eval_score)
           /\ diffs' = Append(diffs, diff)
    /\ Goto("extract")
    /\ UNCHANGED <<archive, driver, game>>

(* board.push or engine.analyse raises inside an iteration *)
AnalyseFails ==
    /\ pc = "extract"
    /\ move_number < Len(game)
    /\ move_number' = move_number + 1
    /\ Raise("EngineError")
    /\ UNCHANGED <<archive, driver, game, prev_eval, move_history, features,
                   labels, evals, diffs>>

(* the loop is over: print(features[-1], "->", labels[-1]); return *)
FinishGame ==
    /\ pc = "extract"
    /\ move_number = Len(game)
    /\ IF features = <<>> \/ labels = <<>>
       THEN Raise("IndexError")
       ELSE Goto("accumulate")
    /\ UNCHANGED <<archive, driver>>
    /\ UNCHANGED locals

(* feats, labels = ...; all_rows.append(feat) for every pair *)
Accumulate ==
    /\ pc = "accumulate"
    /\ all_rows' = all_rows \o LabelledRows(features, labels)
    /\ Goto("loop")
    /\ UNCHANGED <<archive, f, game_count>>
    /\ UNCHANGED locals

(* engine.quit() *)
QuitEngine ==
    /\ pc = "quit"
    /\ pc' = "save"
    /\ engine' = "stopped"
    /\ quits' = quits + 1
    /\ UNCHANGED <<error, starts, written, output, archive, driver>>
    /\ UNCHANGED locals

(* pd.DataFrame(all_rows).to_csv(output_csv) *)
Save ==
    /\ pc = "save"
    /\ pc' = "done"
    /\ written' = TRUE
    /\ output' = all_rows
    /\ UNCHANGED <<error, engine, starts, quits, archive, driver>>
    /\ UNCHANGED locals

Next ==
    \/ StartEngine
    \/ StartEngineFails
    \/ OpenArchive
    \/ OpenArchiveFails
    \/ ReadGame
    \/ EndOfArchive
    \/ LimitReached
    \/ ReadGameFails
    \/ ProcessMove
    \/ AnalyseFails
    \/ FinishGame
    \/ Accumulate
    \/ QuitEngine
    \/ Save

Spec == Init /\ [][Next]_vars

----------------------------------------------------------------------------
(* Properties *)

Min(a, b) == IF a <= b THEN a ELSE b

PrevKeys(i) == {PieceKey(i), CaptureKey(i)}

(* the evaluation of the move before move k of the current game *)
PriorEval(k) == IF k = 1 THEN 0 ELSE evals[k - 1]

CollaboratorErrors == {"EngineError", "OSError", "ReadError"}

(* the labels the archive's scores call for, computed from the scores alone *)
RECURSIVE RefEval(_, _)
RefEval(g, k) ==
    IF g[k].score # <<>> THEN g[k].score[1]
    ELSE IF k = 1 THEN 0 ELSE RefEval(g, k - 1)

RefDelta(g, k) == (IF k = 1 THEN 0 ELSE RefEval(g, k - 1)) - RefEval(g, k)

RefLabel(g, k) ==
    CASE RefDelta(g, k) < 20 -> "good"
      [] RefDelta(g, k) > 100 -> "blunder"
      [] OTHER -> "inaccuracy"

(* the number of moves of games lo..hi of the archive *)
RECURSIVE MovesIn(_, _)
MovesIn(lo, hi) ==
    IF lo > hi THEN 0
    ELSE IF lo = hi THEN Len(archive[lo])
    ELSE LET mid == (lo + hi) \div 2
         IN  MovesIn(lo, mid) + MovesIn(mid + 1, hi)

SumMoves(n) == MovesIn(1, n)

(* C1: for every game, whatever the length of its mainline, the extraction
   returns normally, with one feature record and one label per move, entry k
   belonging to move k. *)
C1_ExtractReturnsForEveryGame ==
    /\ error # "IndexError"
    /\ pc = "accumulate" =>
          /\ Len(features) = Len(game)
          /\ Len(labels) = Len(game)
          /\ \A k \in 1..Len(features) : features[k].move_number = k

(* C2: with delta = previous evaluation - current evaluation, every move gets
   exactly one label: good iff delta < 20, blunder iff delta > 100,
   inaccuracy iff delta is in 20..100; 19 is good, 20, 21 and 100 are
   inaccuracy, 101 is blunder. *)
C2_LabelThresholds ==
    /\ Len(labels) = Len(diffs)
    /\ \A k \in 1..Len(labels) :
          LET delta == PriorEval(k) - evals[k] IN
          /\ diffs[k] = delta
          /\ labels[k] \in {"good", "inaccuracy", "blunder"}
          /\ (labels[k] = "good") <=> (delta < 20)
          /\ (labels[k] = "blunder") <=> (delta > 100)
          /\ (labels[k] = "inaccuracy") <=> (delta \in 20..100)
          /\ (delta = 19) => (labels[k] = "good")
          /\ (delta \in {20, 21, 100}) => (labels[k] = "inaccuracy")
          /\ (delta = 101) => (labels[k] = "blunder")

C2_Witness ==
    /\ diffs = <<20, -20, 101>>
    /\ labels = <<"inaccuracy", "good", "blunder">>

(* C3: in the record of move k >= 3, prev_1_* are the piece and capture flag
   of move k-1 and prev_2_* those of move k-2. *)
C3_PrevKeyedByRecency ==
    \A k \in 3..Len(features) :
        /\ features[k].prev_1_piece = features[k - 1].piece
        /\ features[k].prev_1_is_capture = features[k - 1].is_capture
        /\ features[k].prev_2_piece = features[k - 2].piece
        /\ features[k].prev_2_is_capture = features[k - 2].is_capture

(* C4: in every game of a run the record of move 1 has no prev_1_* and no
   prev_2_* field, that of move 2 has prev_1_* only, and that of every later
   move has both; the window does not carry over into the next game. *)
HistoryShape(r) ==
    /\ (r.move_number = 1) =>
          (PrevKeys(1) \cup PrevKeys(2)) \cap DOMAIN r = {}
    /\ (r.move_number = 2) =>
          /\ PrevKeys(1) \subseteq DOMAIN r
          /\ PrevKeys(2) \cap DOMAIN r = {}
    /\ (r.move_number >= 3) =>
          (PrevKeys(1) \cup PrevKeys(2)) \subseteq DOMAIN r

C4_HistoryFieldsPerGame ==
    /\ \A k \in 1..Len(features) :
          features[k].move_number = k /\ HistoryShape(features[k])
    /\ \A j \in 1..Len(all_rows) : HistoryShape(all_rows[j])

C4_Witness ==
    /\ game_count = 2
    /\ Len(all_rows) >= 2
    /\ Len(features) = 3

(* C5: at most 500 games are processed: of a longer archive exactly the first
   500; of a shorter one, whatever its content, all of them, and the run
   ends without error, through engine shutdown and serialization. *)
C5_AllGamesProcessedCleanly ==
    /\ game_count <= GameLimit
    /\ (pc = "error") => (error \in CollaboratorErrors)
    /\ (pc \in {"quit", "save", "done"}) =>
          game_count = Min(Len(archive), GameLimit)

(* C6: a move for which the oracle gives no score takes the evaluation of
   the previous move (0 for the first move), so its delta is 0 and its label
   good; the next move's delta is computed against the substituted value. *)
C6_NoScoreFallsBack ==
    \A k \in 1..Len(evals) :
        (game[k].score = <<>>) =>
            /\ evals[k] = PriorEval(k)
            /\ diffs[k] = 0
            /\ labels[k] = "good"
            /\ (k + 1 <= Len(evals)) =>
                  diffs[k + 1] = PriorEval(k) - evals[k + 1]

C6_Witness ==
    /\ Len(evals) = 3
    /\ game[1].score = <<-100>>
    /\ game[2].score = <<>>
    /\ game[3].score = <<-20>>
    /\ diffs = <<100, 0, -80>>

(* C7: the baseline of move k's delta is the evaluation of move k-1 of the
   same game and 0 for the first move of each game; no evaluation of one
   game serves as the baseline in the next. *)
C7_BaselineIsPreviousMove ==
    /\ Len(evals) = Len(diffs)
    /\ \A k \in 1..Len(diffs) : diffs[k] + evals[k] = PriorEval(k)
    /\ (pc = "extract") =>
          /\ Len(evals) = move_number
          /\ prev_eval = PriorEval(move_number + 1)

C7_Witness ==
    /\ game_count = 2
    /\ Len(archive[1]) >= 1
    /\ evals = <<-150>>
    /\ diffs = <<150>>

(* C8: after each game is accumulated, and at serialization, the dataset has
   as many rows as the games processed so far have moves, in game order and
   within a game in move order, each row with the label of its own move. *)
GameRowsMatch(i, off) ==
    \A k \in 1..Len(archive[i]) :
        /\ off + k <= Len(all_rows)
        /\ all_rows[off + k].move_number = k
        /\ all_rows[off + k].piece = archive[i][k].piece
        /\ all_rows[off + k].is_capture = archive[i][k].is_capture
        /\ all_rows[off + k].label = RefLabel(archive[i], k)

(* the rows of games lo..hi start after row off *)
RECURSIVE RowsMatch(_, _, _)
RowsMatch(lo, hi, off) ==
    IF lo > hi THEN TRUE
    ELSE IF lo = hi THEN GameRowsMatch(lo, off)
    ELSE LET mid == (lo + hi) \div 2
         IN  /\ RowsMatch(lo, mid, off)
             /\ RowsMatch(mid + 1, hi, off + MovesIn(lo, mid))

C8_RowsAreMovesInOrder ==
    /\ (pc \in {"loop", "quit", "save", "done"}) =>
          /\ RowsMatch(1, game_count, 0)
          /\ Len(all_rows) = SumMoves(game_count)
    /\ written => (output = all_rows /\ pc = "done")

C8_Witness ==
    /\ pc = "done"
    /\ game_count = 2
    /\ Len(archive[1]) = 2
    /\ Len(archive[2]) = 3
    /\ Len(output) = 5

(* C9: in a run that completes the engine is started exactly once, every
   evaluation is requested while it runs, terminate is requested exactly
   once and only after the last game has been accumulated, and the output
   is written only after the engine has stopped. *)
C9_EngineLifecycle ==
    /\ (pc = "start") => (engine = "not_started" /\ starts = 0)
    /\ (pc \in {"open", "loop", "extract", "accumulate", "quit"}) =>
          (engine = "running" /\ starts = 1 /\ quits = 0)
    /\ (pc \in {"save", "done"}) =>
          (engine = "stopped" /\ starts = 1 /\ quits = 1)
    /\ (quits > 0) =>
          /\ game_count = Min(Len(archive), GameLimit)
          /\ Len(all_rows) = SumMoves(game_count)
    /\ written => (engine = "stopped" /\ pc = "done")
    /\ (pc # "done") => ~written

C9_Witness ==
    /\ pc = "done"
    /\ written
    /\ Len(archive) > GameLimit
    /\ game_count = GameLimit
    /\ starts = 1
    /\ quits = 1

(* C10: a failure of opening the archive, of reading a game or of extracting
   a game, after the engine was started, leaves build_dataset uncaught: no
   step follows it, terminate is never requested, the engine is left
   running and nothing is written, not even the rows of finished games. *)
C10_FailureLeavesEngineRunning ==
    /\ [](((pc = "error") /\ (starts > 0)) =>
            (engine = "running" /\ quits = 0 /\ ~written /\ output = <<>>))
    /\ [][pc # "error"]_vars

C10_Witness ==
    /\ pc = "error"
    /\ error = "EngineError"
    /\ engine = "running"
    /\ game_count = 2
    /\ Len(all_rows) > 0
    /\ ~written

====
